---- MODULE Spec2Model ----
(***************************************************************************)
(* Array-field reconciliation of silica_django: SilicaSubFormArrayField    *)
(* (src/silica_django/fields.py) driven by SilicaModelFormMixin            *)
(* (src/silica_django/forms.py), the key-path decoder of SilicaFormMixin   *)
(* and the condition and rule schemas of src/silica_django/rules.py.       *)
(*                                                                         *)
(* The record store is the model's table: store[id] is the value of the   *)
(* nested form's one declared field ("name") of the record with primary   *)
(* key id, or Absent.  A store operation either succeeds or raises; the   *)
(* transaction.atomic() block commits when it is left normally and rolls  *)
(* back when an exception leaves it.                                      *)
(***************************************************************************)
EXTENDS Integers, Sequences, FiniteSets, TLC

\* ------------------------------------------------------------------ bounds
MaxItems == 2     \* posted items per list
MaxInitial == 2   \* records present before the first request
MaxForms == 2     \* requests (form instances) of one process
MaxKeys == 3      \* keys of a posted flat mapping
MaxArgs == 2      \* positional conditions of a condition or a rule

\* ------------------------------------------------------------------ values
\* primary keys: the initial records and room for every create of every pass
Ids == 1..(MaxInitial + MaxForms * MaxItems)
\* identifiers a request may post: those of the initial records and one more
PostedPks == 1..(MaxInitial + 1)
\* '' posted for the identifier, and the None that item.pop(key, None) gives
\* for a missing key: both are falsy and only their truth value is read.
EmptyPk == 0
Absent == "absent"
DefaultName == ""
ValidNames == {"A", "B"}
\* the one value the nested form rejects
BadName == "BAD"
PostNames == ValidNames \cup {BadName}

\* a posted item: the identifier key may be missing
Items == [name : PostNames] \cup [pk : {EmptyPk} \cup PostedPks, name : PostNames]

BSeq(S, n) == UNION {[1..k -> S] : k \in 0..n}

\* posted data of the field: None, or a list of items
NoneData == [isNone |-> TRUE, items |-> <<>>]
ListData(s) == [isNone |-> FALSE, items |-> s]
PostedData == {NoneData} \cup {ListData(s) : s \in BSeq(Items, MaxItems)}

\* model classes: Django's stock Model.__init__ assigns positional arguments
\* to the concrete fields in declaration order, so a mapping passed
\* positionally lands in the primary key and the other fields keep their
\* defaults ("positional"); a model class whose constructor accepts a mapping
\* of field values builds the record from it ("fields").
Ctors == {"positional", "fields"}

VARIABLES
    store,          \* the table: [Ids -> ValidNames \cup {DefaultName, Absent}]
    nextId,         \* next primary key the store assigns
    ctor,           \* how queryset.model(...) reads a positional mapping
    required,       \* the field's required flag
    raw,            \* field._raw
    posted,         \* history: the data as it was submitted
    value,          \* what to_python returned: the forms' error flags
    qs_lookup,      \* field._qs_lookup: [cached, map]
    initial,        \* field.initial: primary keys, in queryset order
    errors,         \* _errors
    update_errors,  \* _update_errors: number of entries per primary key
    pc,             \* position of the form instance in its request
    raised,         \* exception that left the last handler, or "none"
    ops,            \* history: store operations of the last do_save, in order
    staged,         \* history: [creates, updates, paths] of the last prepare_for_commit
    before,         \* history: [store, nextId, other] when the last do_save began
    valid,          \* history: validate of this request raised nothing
    forms,          \* number of form instances built so far
    instance_form,  \* the field class's instance_form attribute
    raw_data,       \* the flat mapping posted to a form
    array_keys,     \* keys _extract_array_info took for array keys
    array_info,     \* the grouped items _extract_array_info returned
    form_data,      \* the mapping SilicaFormMixin.__init__ hands to the form
    condition,      \* a Condition object
    rule,           \* a Rule object
    schema,         \* what get_condition_schema / get_rule_schema returned
    other,          \* the table's column of an attribute outside the item form's fields
    txn,            \* the table and key counter as the open transaction sees them
    observed,       \* history: the table another connection last read, and when
    queryset,       \* field.queryset
    configured,     \* history: the queryset the field was constructed with
    instantiated_forms  \* field._instantiated_forms: one instance per item form

fieldVars == <<store, nextId, ctor, required, raw, posted, value, qs_lookup, initial, errors,
               update_errors, raised, ops, staged, before, valid, forms, instance_form>>
decoderVars == <<raw_data, array_keys, array_info, form_data>>
rulesVars == <<condition, rule, schema>>
concurrentVars == <<txn, observed>>
scopeVars == <<queryset, configured, instantiated_forms>>
vars == <<fieldVars, pc, decoderVars, rulesVars, other, concurrentVars, scopeVars>>

Present(st) == {i \in Ids : st[i] # Absent}

\* ------------------------------------------------------------------ items
HasKey(item) == "pk" \in DOMAIN item
\* item.pop(identifier_field, None): the value ...
PopValue(item) == IF HasKey(item) THEN item.pk ELSE EmptyPk
\* ... and the item it leaves behind
PopItem(item) == [k \in DOMAIN item \ {"pk"} |-> item[k]]

\* validate_against_form: the nested form bound to the item
validate_against_form(item, instance) ==
    [errors |-> item.name = BadName,
     cleaned_data |-> PopItem(item),
     instance |-> instance]

\* ------------------------------------------------------------------ store
\* get_queryset: no queryset is configured (the class attribute is None), so
\* the field's queryset is every record of the model
get_queryset(st) == st

NoLookup == [cached |-> FALSE, map |-> [i \in Ids |-> Absent]]

\* the qs_lookup property: `if not self._qs_lookup` recomputes for None and
\* for the empty dict, and otherwise answers from the cache
qs_lookup_get(cache, st) ==
    IF cache.cached /\ Present(cache.map) # {}
    THEN cache
    ELSE [cached |-> TRUE, map |-> get_queryset(st)]

\* an attribute of the model that the item form does not declare: the object
\* the constructor builds carries the model's default for it
DefaultOther == ""

\* queryset.model(item) and queryset.model(item, pk=pk)
ModelNew(ct, item, pk) ==
    IF ct = "fields"
    THEN [pk |-> pk, badpk |-> FALSE, name |-> item.name, other |-> DefaultOther]
    ELSE [pk |-> pk, badpk |-> pk = EmptyPk, name |-> DefaultName, other |-> DefaultOther]

prepare_create(item, ct) == ModelNew(ct, item, EmptyPk)

prepare_update(pk, item, ct) == ModelNew(ct, item, pk)

\* refresh_data: field.initial lists the queryset's records
RECURSIVE SortedIds(_)
SortedIds(S) ==
    IF S = {} THEN <<>>
    ELSE LET m == CHOOSE x \in S : \A y \in S : x <= y
         IN <<m>> \o SortedIds(S \ {m})

refresh_data(st) == SortedIds(Present(get_queryset(st)))

\* A field with a queryset.  A queryset is the set of keys its filter admits;
\* Records is what it selects from the table.
AllRecords == [isNone |-> FALSE, scope |-> Ids]
Records(qs, st) == [i \in Ids |-> IF i \in qs.scope THEN st[i] ELSE Absent]

\* __init__: `if queryset: self.queryset = queryset`; a queryset that selects
\* no record is false, and the class attribute None stays
init_queryset(given, st) ==
    IF ~given.isNone /\ Present(Records(given, st)) # {} THEN given
    ELSE [isNone |-> TRUE, scope |-> {}]

\* get_queryset: `if self.queryset:` is false for None and for a queryset that
\* selects no record, and then every record of the model is the queryset
get_queryset_of(qs, st) ==
    IF ~qs.isNone /\ Present(Records(qs, st)) # {} THEN qs ELSE AllRecords

\* mutant: one item form per record of the model, whatever the queryset
refresh_data_of_whole_model(qs, st) ==
    [queryset |-> get_queryset_of(qs, st),
     instantiated_forms |-> SortedIds(Present(st)),
     initial |-> SortedIds(Present(st))]

\* refresh_data: the queryset is refreshed, one item form is instantiated per
\* record of it, and initial takes one entry per form with its identifier
refresh_data_of(qs, st) ==
    LET q == get_queryset_of(qs, st)
        made == SortedIds(Present(Records(q, st)))
    IN [queryset |-> q,
        instantiated_forms |-> made,
        initial |-> [k \in 1..Len(made) |-> made[k]]]

\* get_items_to_delete: queryset.exclude(pk__in=[datum[key] for datum in data if key in datum])
item_keys(items) == {items[k].pk : k \in {j \in 1..Len(items) : HasKey(items[j])}}

\* mutant: filter where the code excludes
get_items_to_delete_kept(data, st) ==
    LET items == IF data.isNone THEN <<>> ELSE data.items
    IN Present(get_queryset(st)) \cap item_keys(items)

\* mutant: nothing to delete when nothing was posted
get_items_to_delete_unless_empty(data, st) ==
    LET items == IF data.isNone THEN <<>> ELSE data.items
    IN IF items = <<>> THEN {} ELSE Present(get_queryset(st)) \ item_keys(items)

get_items_to_delete(data, st) ==
    LET items == IF data.isNone THEN <<>> ELSE data.items
    IN Present(get_queryset(st)) \ item_keys(items)

Op(name, target, objs, ok) == [op |-> name, target |-> target, objs |-> objs, ok |-> ok]

\* mutant: the exception is swallowed without a message
perform_delete_silent(target, st, errs, ok) ==
    IF ok
    THEN [store |-> [i \in Ids |-> IF i \in target THEN Absent ELSE st[i]], errors |-> errs]
    ELSE [store |-> st, errors |-> errs]

\* perform_delete: qs.delete() under try/except
perform_delete(target, st, errs, ok) ==
    IF ok
    THEN [store |-> [i \in Ids |-> IF i \in target THEN Absent ELSE st[i]], errors |-> errs]
    ELSE [store |-> st, errors |-> Append(errs, "delete")]

\* Model.objects.bulk_create: raises for an object whose primary key is no key
bulk_create_raises(objs) == \E k \in 1..Len(objs) : objs[k].badpk

bulk_create(objs, st, nid) ==
    [i \in Ids |-> IF i >= nid /\ i < nid + Len(objs) THEN objs[i - nid + 1].name ELSE st[i]]

\* Model.objects.bulk_update(objs, fields): one CASE per field, the first
\* object with a given primary key decides; a key with no row updates nothing
bulk_update(objs, st) ==
    [i \in Ids |->
        LET hits == {k \in 1..Len(objs) : objs[k].pk = i}
        IN IF st[i] # Absent /\ hits # {}
           THEN objs[CHOOSE k \in hits : \A j \in hits : k <= j].name
           ELSE st[i]]

\* mutant: every attribute of the model is written
update_fields_all == {"name", "other"}

\* self.instance_form._meta.fields, the fields argument of bulk_update
update_fields == {"name"}

\* The same three operations on the column of the attribute the item form does
\* not declare.  A deleted row is gone, a created row holds what its object
\* carries, bulk_update writes the column only when it is among the fields.
delete_other(target, oth) ==
    [i \in Ids |-> IF i \in target THEN Absent ELSE oth[i]]

bulk_create_other(objs, oth, nid) ==
    [i \in Ids |-> IF i >= nid /\ i < nid + Len(objs) THEN objs[i - nid + 1].other ELSE oth[i]]

bulk_update_other(objs, fields, oth) ==
    [i \in Ids |->
        LET hits == {k \in 1..Len(objs) : objs[k].pk = i}
        IN IF oth[i] # Absent /\ hits # {} /\ "other" \in fields
           THEN objs[CHOOSE k \in hits : \A j \in hits : k <= j].other
           ELSE oth[i]]

\* the column after the store operations of a pass, in the order they ran; a
\* pass that was rolled back leaves the column as it was
RECURSIVE other_after(_, _, _, _)
other_after(oth, log, k, nid) ==
    IF k > Len(log) THEN oth
    ELSE IF ~log[k].ok THEN other_after(oth, log, k + 1, nid)
    ELSE IF log[k].op = "delete"
    THEN other_after(delete_other(log[k].target, oth), log, k + 1, nid)
    ELSE IF log[k].op = "bulk_create"
    THEN other_after(bulk_create_other(log[k].objs, oth, nid), log, k + 1, nid)
    ELSE IF log[k].op = "bulk_update"
    THEN other_after(bulk_update_other(log[k].objs, update_fields, oth), log, k + 1, nid)
    ELSE other_after(oth, log, k + 1, nid)

\* ------------------------------------------------------------------ partition
\* as handle_update, but the newest update goes before the ones already staged
handle_update_newest_first(pk, item, acc, st, ct) ==
    LET lookup == qs_lookup_get(acc.lookup, st)
        seen == [acc EXCEPT !.lookup = lookup, !.paths = Append(@, "update")]
        form == validate_against_form(item, pk)
    IN IF lookup.map[pk] = Absent
       THEN [seen EXCEPT !.raised = "KeyError"]
       ELSE IF ~form.errors
       THEN [seen EXCEPT !.updates = <<prepare_update(pk, form.cleaned_data, ct)>> \o @]
       ELSE [seen EXCEPT !.update_errors[pk] = @ + 1]

\* handle_update; acc carries the field state the loop of prepare_for_commit mutates
handle_update(pk, item, acc, st, ct) ==
    LET lookup == qs_lookup_get(acc.lookup, st)
        seen == [acc EXCEPT !.lookup = lookup, !.paths = Append(@, "update")]
        form == validate_against_form(item, pk)
    IN IF lookup.map[pk] = Absent
       THEN [seen EXCEPT !.raised = "KeyError"]
       ELSE IF ~form.errors
       THEN [seen EXCEPT !.updates = Append(@, prepare_update(pk, form.cleaned_data, ct))]
       ELSE [seen EXCEPT !.update_errors[pk] = @ + 1]

\* as handle_create, but an item with errors is staged as well
handle_create_staged_anyway(item, acc, ct) ==
    LET seen == [acc EXCEPT !.paths = Append(@, "create")]
        form == validate_against_form(item, EmptyPk)
    IN IF ~form.errors
       THEN [seen EXCEPT !.creates = Append(@, prepare_create(form.cleaned_data, ct))]
       ELSE [seen EXCEPT !.errors = Append(@, "create_item"),
                         !.creates = Append(@, prepare_create(form.cleaned_data, ct))]

handle_create(item, acc, ct) ==
    LET seen == [acc EXCEPT !.paths = Append(@, "create")]
        form == validate_against_form(item, EmptyPk)
    IN IF ~form.errors
       THEN [seen EXCEPT !.creates = Append(@, prepare_create(form.cleaned_data, ct))]
       ELSE [seen EXCEPT !.errors = Append(@, "create_item")]

\* mutant: an identifier the lookup table does not know falls back to a create
pfc_item_by_lookup(item, i, acc, st, ct) ==
    LET pk == PopValue(item)
        popped == [acc EXCEPT !.data[i] = PopItem(item)]
    IN IF pk # EmptyPk /\ qs_lookup_get(acc.lookup, st).map[pk] # Absent
       THEN handle_update(pk, PopItem(item), popped, st, ct)
       ELSE handle_create(PopItem(item), popped, ct)

\* one iteration of the loop: pop the identifier, then branch on its truth value
pfc_item(item, i, acc, st, ct) ==
    LET pk == PopValue(item)
        popped == [acc EXCEPT !.data[i] = PopItem(item)]
    IN IF pk # EmptyPk
       THEN handle_update(pk, PopItem(item), popped, st, ct)
       ELSE handle_create(PopItem(item), popped, ct)

RECURSIVE pfc_loop(_, _, _, _, _)
pfc_loop(items, i, acc, st, ct) ==
    IF i > Len(items) \/ acc.raised # "none"
    THEN acc
    ELSE pfc_loop(items, i + 1, pfc_item(items[i], i, acc, st, ct), st, ct)

prepare_for_commit(data, cache, st, errs, uerrs, ct) ==
    LET items == IF data.isNone THEN <<>> ELSE data.items
    IN pfc_loop(items, 1,
                [creates |-> <<>>, updates |-> <<>>, paths |-> <<>>, data |-> items,
                 lookup |-> cache, errors |-> errs, update_errors |-> uerrs,
                 raised |-> "none"],
                st, ct)

\* ------------------------------------------------------------------ do_save
\* handle_delete: the delete set of the posted data, then its deletion
handle_delete(data, st, errs, ok) ==
    LET target == get_items_to_delete(data, st)
        done == perform_delete(target, st, errs, ok)
    IN [store |-> done.store, errors |-> done.errors,
        log |-> <<Op("delete", target, <<>>, ok)>>]

\* the commit phase of do_save: bulk_create if creates, bulk_update if updates,
\* each under its own try/except
commit_creates(creates, st, nid, errs, ok) ==
    IF creates = <<>>
    THEN [store |-> st, nextId |-> nid, errors |-> errs, log |-> <<>>]
    ELSE IF ok /\ ~bulk_create_raises(creates)
    THEN [store |-> bulk_create(creates, st, nid), nextId |-> nid + Len(creates),
          errors |-> errs, log |-> <<Op("bulk_create", {}, creates, TRUE)>>]
    ELSE [store |-> st, nextId |-> nid, errors |-> Append(errs, "bulk_create"),
          log |-> <<Op("bulk_create", {}, creates, FALSE)>>]

\* mutant: one try block for both, a failed bulk_create skips the bulk_update
commit_updates_same_try(updates, st, errs, ok) ==
    IF updates = <<>> \/ (errs # <<>> /\ errs[Len(errs)] = "bulk_create")
    THEN [store |-> st, errors |-> errs, log |-> <<>>]
    ELSE IF ok
    THEN [store |-> bulk_update(updates, st), errors |-> errs,
          log |-> <<Op("bulk_update", {}, updates, TRUE)>>]
    ELSE [store |-> st, errors |-> Append(errs, "bulk_update"),
          log |-> <<Op("bulk_update", {}, updates, FALSE)>>]

commit_updates(updates, st, errs, ok) ==
    IF updates = <<>>
    THEN [store |-> st, errors |-> errs, log |-> <<>>]
    ELSE IF ok
    THEN [store |-> bulk_update(updates, st), errors |-> errs,
          log |-> <<Op("bulk_update", {}, updates, TRUE)>>]
    ELSE [store |-> st, errors |-> Append(errs, "bulk_update"),
          log |-> <<Op("bulk_update", {}, updates, FALSE)>>]

Begin == Op("begin", {}, <<>>, TRUE)
Commit == Op("commit", {}, <<>>, TRUE)
Rollback == Op("rollback", {}, <<>>, TRUE)

\* mutant: the creates are committed before the delete set is computed
do_save_create_first(data, st, nid, cache, errs, uerrs, ct, dOk, cOk, uOk) ==
    LET pfc == prepare_for_commit(data, cache, st, errs, uerrs, ct)
        cre == commit_creates(pfc.creates, st, nid, pfc.errors, cOk)
        del == handle_delete(data, cre.store, cre.errors, dOk)
        upd == commit_updates(pfc.updates, del.store, del.errors, uOk)
        part == [creates |-> pfc.creates, updates |-> pfc.updates, paths |-> pfc.paths]
        left == [isNone |-> data.isNone, items |-> pfc.data]
    IN IF pfc.raised # "none"
       THEN \* the KeyError leaves the atomic block: rollback, no second refresh
            [store |-> st, nextId |-> nid, raw |-> left, qs_lookup |-> pfc.lookup,
             initial |-> refresh_data(st), errors |-> pfc.errors,
             update_errors |-> pfc.update_errors, raised |-> pfc.raised,
             ops |-> <<Begin, Rollback>>, staged |-> part]
       ELSE [store |-> upd.store, nextId |-> cre.nextId, raw |-> left,
             qs_lookup |-> pfc.lookup, initial |-> refresh_data(upd.store),
             errors |-> upd.errors, update_errors |-> pfc.update_errors,
             raised |-> "none",
             ops |-> <<Begin>> \o cre.log \o del.log \o upd.log \o <<Commit>>,
             staged |-> part]

\* do_save on the field state (data = _raw, the lookup cache, the error
\* containers); dOk, cOk, uOk say whether the store lets each operation succeed
do_save(data, st, nid, cache, errs, uerrs, ct, dOk, cOk, uOk) ==
    LET del == handle_delete(data, st, errs, dOk)
        pfc == prepare_for_commit(data, cache, del.store, del.errors, uerrs, ct)
        cre == commit_creates(pfc.creates, del.store, nid, pfc.errors, cOk)
        upd == commit_updates(pfc.updates, cre.store, cre.errors, uOk)
        part == [creates |-> pfc.creates, updates |-> pfc.updates, paths |-> pfc.paths]
        left == [isNone |-> data.isNone, items |-> pfc.data]
    IN IF pfc.raised # "none"
       THEN \* the KeyError leaves the atomic block: rollback, no second refresh
            [store |-> st, nextId |-> nid, raw |-> left, qs_lookup |-> pfc.lookup,
             initial |-> refresh_data(st), errors |-> pfc.errors,
             update_errors |-> pfc.update_errors, raised |-> pfc.raised,
             ops |-> <<Begin>> \o del.log \o <<Rollback>>, staged |-> part]
       ELSE [store |-> upd.store, nextId |-> cre.nextId, raw |-> left,
             qs_lookup |-> pfc.lookup, initial |-> refresh_data(upd.store),
             errors |-> upd.errors, update_errors |-> pfc.update_errors,
             raised |-> "none",
             ops |-> <<Begin>> \o del.log \o cre.log \o upd.log \o <<Commit>>,
             staged |-> part]

\* ------------------------------------------------------------------ to_python
\* one iteration of data_as_forms: pop the identifier, look the instance up
daf_item(item, i, acc, st) ==
    LET pk == PopValue(item)
        popped == [acc EXCEPT !.data[i] = PopItem(item)]
        lookup == qs_lookup_get(acc.lookup, st)
    IN IF pk = EmptyPk
       THEN [popped EXCEPT !.forms = Append(@, validate_against_form(PopItem(item), EmptyPk).errors)]
       ELSE IF lookup.map[pk] = Absent
       THEN [popped EXCEPT !.lookup = lookup, !.raised = "KeyError"]
       ELSE [popped EXCEPT !.lookup = lookup,
                           !.forms = Append(@, validate_against_form(PopItem(item), pk).errors)]

RECURSIVE daf_loop(_, _, _, _)
daf_loop(items, i, acc, st) ==
    IF i > Len(items) \/ acc.raised # "none"
    THEN acc
    ELSE daf_loop(items, i + 1, daf_item(items[i], i, acc, st), st)

data_as_forms(items, cache, st) ==
    daf_loop(items, 1, [forms |-> <<>>, data |-> items, lookup |-> cache, raised |-> "none"], st)

NoValue == [isNone |-> TRUE, forms |-> <<>>]

\* to_python: _raw = data; None for an empty value, the forms otherwise
to_python(data, cache, st) ==
    IF data.isNone \/ data.items = <<>>
    THEN [raw |-> data, value |-> NoValue, qs_lookup |-> cache, raised |-> "none"]
    ELSE LET daf == data_as_forms(data.items, cache, st)
         IN [raw |-> [isNone |-> FALSE, items |-> daf.data],
             value |-> IF daf.raised # "none" THEN NoValue
                       ELSE [isNone |-> FALSE, forms |-> daf.forms],
             qs_lookup |-> daf.lookup, raised |-> daf.raised]

\* validate: TRUE when it raises ValidationError; Field.validate rejects an
\* empty value of a required field, then the forms' errors and _errors count
validate(val, errs, req) ==
    \/ val.isNone /\ req
    \/ /\ ~val.isNone
       /\ val.forms # <<>>
       /\ \/ \E k \in 1..Len(val.forms) : val.forms[k]
          \/ errs # <<>>

\* __init__ of SilicaSubFormArrayField and of SilicaSubFormField: Field.__init__,
\* then the two checks of the class's instance_form, then the optional
\* argument; `if queryset:` evaluates the queryset it was given
InstanceForms == {"unset", "Form", "ModelForm"}

field_init_argument_first(iform, queryset_given) ==
    [raised |-> IF iform = "unset" THEN "NotImplementedError"
                ELSE IF iform # "ModelForm" THEN "TypeError" ELSE "none",
     log |-> IF queryset_given THEN <<Op("evaluate", {}, <<>>, TRUE)>> ELSE <<>>]

field_init(iform, queryset_given) ==
    IF iform = "unset"
    THEN [raised |-> "NotImplementedError", log |-> <<>>]
    ELSE IF iform # "ModelForm"
    THEN [raised |-> "TypeError", log |-> <<>>]
    ELSE [raised |-> "none",
          log |-> IF queryset_given THEN <<Op("evaluate", {}, <<>>, TRUE)>> ELSE <<>>]

\* -------------------------------------------------------- key-path decoder
\* A key is the sequence of its characters; a mapping is the sequence of its
\* entries in insertion order.  An entry holds a posted value, or the item
\* list of an array field.
Dot == "."
PostedKeys ==
    { <<"a">>,
      <<"a", Dot, "0">>,
      <<"a", Dot, "0", Dot, "f">>,
      <<"a", Dot, "0", Dot, "g">>,
      <<"a", Dot, "1", Dot, "f">>,
      <<"a", Dot, Dot, "f">>,
      <<"b", Dot, "0", Dot, "f">>,
      <<"a", Dot, "0", Dot, "f", Dot, "g">> }
PostedValues == {"u", "v"}

Entry(k, v) == [array |-> FALSE, items |-> <<>>, key |-> k, value |-> v]
ArrayEntry(k, its) == [array |-> TRUE, items |-> its, key |-> k, value |-> ""]

PostedMappings ==
    {m \in BSeq({Entry(k, v) : k \in PostedKeys, v \in PostedValues}, MaxKeys) :
        \A i \in 1..Len(m), j \in 1..Len(m) : m[i].key = m[j].key => i = j}

\* key.split('.')
RECURSIVE split_from(_, _, _)
split_from(key, i, cur) ==
    IF i > Len(key) THEN <<cur>>
    ELSE IF key[i] = Dot THEN <<cur>> \o split_from(key, i + 1, <<>>)
    ELSE split_from(key, i + 1, Append(cur, key[i]))

split(key) == split_from(key, 1, <<>>)

\* position of a key in a sequence of records, 0 when it is not there
IndexOf(seq, fld, k) ==
    IF \E i \in 1..Len(seq) : seq[i][fld] = k
    THEN CHOOSE i \in 1..Len(seq) : seq[i][fld] = k
    ELSE 0

\* d[k] = v of a dict: an existing key keeps its place, a new one goes last
DictSet(d, e) ==
    IF IndexOf(d, "key", e.key) = 0 THEN Append(d, e)
    ELSE [d EXCEPT ![IndexOf(d, "key", e.key)] = e]

\* del d[k]
DictDel(d, k) == SelectSeq(d, LAMBDA e : e.key # k)

\* item[field] = value
ItemSet(item, field, v) == [f \in DOMAIN item \cup {field} |-> IF f = field THEN v ELSE item[f]]

NoGroups == [array_keys |-> <<>>, groups |-> <<>>]

\* as extract_key, but a new index token goes before the ones already seen
extract_key_newest_first(e, acc) ==
    LET split_key == split(e.key)
    IN IF Len(split_key) < 3 THEN acc
       ELSE LET array_field_name == split_key[1]
                count == split_key[2]
                field == split_key[3]
                groups1 == IF IndexOf(acc.groups, "name", array_field_name) = 0
                           THEN Append(acc.groups, [name |-> array_field_name, counts |-> <<>>])
                           ELSE acc.groups
                g == IndexOf(groups1, "name", array_field_name)
                counts1 == IF IndexOf(groups1[g].counts, "count", count) = 0
                           THEN <<[count |-> count, item |-> <<>>]>> \o groups1[g].counts
                           ELSE groups1[g].counts
                c == IndexOf(counts1, "count", count)
                counts2 == [counts1 EXCEPT ![c].item = ItemSet(counts1[c].item, field, e.value)]
            IN [array_keys |-> Append(acc.array_keys, e.key),
                groups |-> [groups1 EXCEPT ![g].counts = counts2]]

\* as extract_key, but the sub-field is the last segment of the key
extract_key_last_segment(e, acc) ==
    LET split_key == split(e.key)
    IN IF Len(split_key) < 3 THEN acc
       ELSE LET array_field_name == split_key[1]
                count == split_key[2]
                field == split_key[Len(split_key)]
                groups1 == IF IndexOf(acc.groups, "name", array_field_name) = 0
                           THEN Append(acc.groups, [name |-> array_field_name, counts |-> <<>>])
                           ELSE acc.groups
                g == IndexOf(groups1, "name", array_field_name)
                counts1 == IF IndexOf(groups1[g].counts, "count", count) = 0
                           THEN Append(groups1[g].counts, [count |-> count, item |-> <<>>])
                           ELSE groups1[g].counts
                c == IndexOf(counts1, "count", count)
                counts2 == [counts1 EXCEPT ![c].item = ItemSet(counts1[c].item, field, e.value)]
            IN [array_keys |-> Append(acc.array_keys, e.key),
                groups |-> [groups1 EXCEPT ![g].counts = counts2]]

\* one round of the loop of _extract_array_info, lines 81-92:
\* array_items_by_name_and_count[array_field_name][count][field] = value on
\* the nested defaultdicts, which keep their keys in insertion order
extract_key(e, acc) ==
    LET split_key == split(e.key)
    IN IF Len(split_key) < 3 THEN acc
       ELSE LET array_field_name == split_key[1]
                count == split_key[2]
                field == split_key[3]
                groups1 == IF IndexOf(acc.groups, "name", array_field_name) = 0
                           THEN Append(acc.groups, [name |-> array_field_name, counts |-> <<>>])
                           ELSE acc.groups
                g == IndexOf(groups1, "name", array_field_name)
                counts1 == IF IndexOf(groups1[g].counts, "count", count) = 0
                           THEN Append(groups1[g].counts, [count |-> count, item |-> <<>>])
                           ELSE groups1[g].counts
                c == IndexOf(counts1, "count", count)
                counts2 == [counts1 EXCEPT ![c].item = ItemSet(counts1[c].item, field, e.value)]
            IN [array_keys |-> Append(acc.array_keys, e.key),
                groups |-> [groups1 EXCEPT ![g].counts = counts2]]

RECURSIVE extract_loop(_, _, _)
extract_loop(d, i, acc) ==
    IF i > Len(d) THEN acc ELSE extract_loop(d, i + 1, extract_key(d[i], acc))

\* _extract_array_info: the array keys in iteration order, and for each array
\* field name values_by_count.values(), the items in the order of their tokens
_extract_array_info(d) ==
    LET acc == IF d = <<>> THEN NoGroups ELSE extract_loop(d, 1, NoGroups)
    IN [array_keys |-> acc.array_keys,
        array_info |-> [g \in 1..Len(acc.groups) |->
                           [name |-> acc.groups[g].name,
                            items |-> [c \in 1..Len(acc.groups[g].counts) |->
                                          acc.groups[g].counts[c].item]]]]

RECURSIVE set_arrays(_, _, _)
set_arrays(d, info, i) ==
    IF i > Len(info) THEN d
    ELSE set_arrays(DictSet(d, ArrayEntry(info[i].name, info[i].items)), info, i + 1)

RECURSIVE del_keys(_, _, _)
del_keys(d, keys, i) ==
    IF i > Len(keys) THEN d ELSE del_keys(DictDel(d, keys[i]), keys, i + 1)

\* SilicaFormMixin.__init__ on the posted mapping: data[name] = values for
\* every array field, then del data[key] for every array key
init_data(d) ==
    LET r == _extract_array_info(d)
    IN del_keys(set_arrays(d, r.array_info, 1), r.array_keys, 1)

\* ------------------------------------------------------------------- rules
\* A Python value is its type and its elements; a dict with string keys is a
\* function on its keys, a list the sequence of its elements.
PyInt(n) == [type |-> "int", val |-> <<n>>]
PyList(s) == [type |-> "list", val |-> s]
PyTuple(s) == [type |-> "tuple", val |-> s]
PyValues == {PyInt(1), PyList(<<1, 2>>), PyTuple(<<1, 2>>)}

Keys == {"key1", "key2"}
ArgKeys == {"key1"}
KwargsOver(K) == UNION {[S -> PyValues] : S \in SUBSET K}
NoKwargs == [k \in {} |-> PyInt(1)]

Classes == {"Or", "And", "Not"}
UIEffects == {"SHOW", "HIDE", "DISABLE", "ENABLE"}

Cond(cls, args, kwargs) == [cls |-> cls, args |-> args, kwargs |-> kwargs]
\* conditions given as positional arguments, and all conditions
ArgConditions == {Cond(cls, <<>>, kw) : cls \in Classes, kw \in KwargsOver(ArgKeys)}
Conditions ==
    {Cond(cls, args, kw) : cls \in Classes, args \in BSeq(ArgConditions, MaxArgs),
                           kw \in KwargsOver(Keys)}
Rules == [effect : UIEffects, args : BSeq(ArgConditions, MaxArgs), kwargs : KwargsOver(Keys)]

schema_key(cls) == CASE cls = "Or" -> "anyOf" [] cls = "And" -> "allOf" [] cls = "Not" -> "not"

\* as value_as_jsonschema, but every sequence type is taken for a list
value_as_jsonschema_any_sequence(v) ==
    IF v.type \in {"list", "tuple"} THEN [enum |-> v] ELSE [const |-> v]

value_as_jsonschema(v) ==
    IF v.type = "list" THEN [enum |-> v] ELSE [const |-> v]

_process_kwargs(kwargs) ==
    [type |-> "object",
     properties |-> [k \in DOMAIN kwargs |-> value_as_jsonschema(kwargs[k])]]

RECURSIVE get_condition_schema(_)

_process_args(args) == [k \in 1..Len(args) |-> get_condition_schema(args[k])]

\* as Condition.get_condition_schema, but the keyword object goes first
Condition_get_condition_schema_kwargs_first(c) ==
    LET schema0 == IF c.args # <<>> THEN _process_args(c.args) ELSE <<>>
        schema1 == IF DOMAIN c.kwargs # {} THEN <<_process_kwargs(c.kwargs)>> \o schema0
                   ELSE schema0
    IN [k \in {schema_key(c.cls)} |-> schema1]

\* Condition.get_condition_schema, which Or and And inherit
Condition_get_condition_schema(c) ==
    LET schema0 == IF c.args # <<>> THEN _process_args(c.args) ELSE <<>>
        schema1 == IF DOMAIN c.kwargs # {} THEN Append(schema0, _process_kwargs(c.kwargs))
                   ELSE schema0
    IN [k \in {schema_key(c.cls)} |-> schema1]

\* dict.update
DictUpdate(f, g) == [k \in DOMAIN f \cup DOMAIN g |-> IF k \in DOMAIN g THEN g[k] ELSE f[k]]

\* as update_with_args, but each condition's schema goes into a list
RECURSIVE update_with_args_listed(_, _, _)
update_with_args_listed(s, args, i) ==
    IF i > Len(args) THEN s
    ELSE update_with_args_listed(DictUpdate(s, [allOf |-> <<get_condition_schema(args[i])>>]),
                                 args, i + 1)

\* the loop of Not.get_condition_schema, lines 75-76
RECURSIVE update_with_args(_, _, _)
update_with_args(s, args, i) ==
    IF i > Len(args) THEN s
    ELSE update_with_args(DictUpdate(s, get_condition_schema(args[i])), args, i + 1)

\* Not.get_condition_schema: one mapping, updated with the keyword object's
\* entries and then with each condition's schema
Not_get_condition_schema(c) ==
    LET schema0 == IF DOMAIN c.kwargs # {} THEN _process_kwargs(c.kwargs) ELSE <<>>
    IN [k \in {schema_key(c.cls)} |-> update_with_args(schema0, c.args, 1)]

get_condition_schema(c) ==
    IF c.cls = "Not" THEN Not_get_condition_schema(c) ELSE Condition_get_condition_schema(c)

\* as get_rule_schema, but the keywords go to the wrapping Or itself
get_rule_schema_flat(r) ==
    [effect |-> r.effect,
     condition |-> [scope |-> "#",
                    schema |-> get_condition_schema(Cond("Or", r.args, r.kwargs))]]

\* Rule.get_rule_schema: the conditions, then And(**kwargs), wrapped in an Or
get_rule_schema(r) ==
    LET args0 == IF Len(r.args) # 0 THEN r.args ELSE <<>>
        schema_args == IF DOMAIN r.kwargs # {} THEN Append(args0, Cond("And", <<>>, r.kwargs))
                       ELSE args0
    IN [effect |-> r.effect,
        condition |-> [scope |-> "#",
                       schema |-> get_condition_schema(Cond("Or", schema_args, NoKwargs))]]

\* ------------------------------------------------------------------ behaviour
NoStaged == [creates |-> <<>>, updates |-> <<>>, paths |-> <<>>]

\* before the first request the table holds some of the records 1..MaxInitial,
\* each with the name "A"; the keys 1..MaxInitial have all been assigned
InitialStores ==
    {[i \in Ids |-> IF i \in S THEN "A" ELSE Absent] : S \in SUBSET (1..MaxInitial)}

\* a field object nobody has used yet, and an empty history
Fresh ==
    /\ raw = NoneData
    /\ posted = NoneData
    /\ value = NoValue
    /\ qs_lookup = NoLookup
    /\ initial = <<>>
    /\ raised = "none"
    /\ ops = <<>>
    /\ staged = NoStaged
    /\ before = [store |-> store, nextId |-> nextId, other |-> other]
    /\ valid = FALSE

\* no mapping was posted, no condition or rule was built
IdleDecoder == raw_data = <<>> /\ array_keys = <<>> /\ array_info = <<>> /\ form_data = <<>>
NoCondition == Cond("Or", <<>>, NoKwargs)
NoRule == [effect |-> "SHOW", args |-> <<>>, kwargs |-> NoKwargs]
IdleRules == condition = NoCondition /\ rule = NoRule /\ schema = <<>>

\* an attribute the item form does not declare was set by other code
SetElsewhere == "X"

\* no transaction is open
NoTxn == [open |-> FALSE, store |-> [i \in Ids |-> Absent], nextId |-> 0]

\* the field was constructed without a queryset
NoQueryset == [isNone |-> TRUE, scope |-> {}]

\* the table's other column, no transaction open, nothing instantiated yet
AtRest ==
    /\ other = [i \in Ids |-> IF store[i] # Absent THEN SetElsewhere ELSE Absent]
    /\ txn = NoTxn
    /\ observed = [table |-> store, at |-> "new"]
    /\ instantiated_forms = <<>>

\* the process before its first request; the class-level _errors and
\* _update_errors are empty
Process ==
    /\ store \in InitialStores
    /\ nextId = MaxInitial + 1
    /\ ctor \in Ctors
    /\ required \in BOOLEAN
    /\ errors = <<>>
    /\ update_errors = [i \in Ids |-> 0]
    /\ forms = 1
    /\ AtRest
    /\ queryset = NoQueryset
    /\ configured = NoQueryset
    /\ Fresh
    /\ IdleDecoder
    /\ IdleRules

Init ==
    /\ Process
    /\ instance_form = "ModelForm"
    /\ pc = "new"

\* the parent form's full_clean reaches the field: to_python(data)
ToPython(data) ==
    /\ pc = "new"
    /\ LET r == to_python(data, qs_lookup, store)
       IN /\ raw' = r.raw
          /\ value' = r.value
          /\ qs_lookup' = r.qs_lookup
          /\ raised' = r.raised
          /\ pc' = IF r.raised # "none" THEN "crashed" ELSE "cleaned"
    /\ posted' = data
    /\ UNCHANGED <<store, nextId, ctor, required, initial, errors, update_errors, ops, staged,
                   before, valid>>
    /\ UNCHANGED <<forms, instance_form, decoderVars, rulesVars, other, concurrentVars, scopeVars>>

\* ... and then validate(value)
Validate ==
    /\ pc = "cleaned"
    /\ valid' = ~validate(value, errors, required)
    /\ pc' = "validated"
    /\ UNCHANGED <<store, nextId, ctor, required, raw, posted, value, qs_lookup, initial, errors,
                   update_errors, raised, ops, staged, before>>
    /\ UNCHANGED <<forms, instance_form, decoderVars, rulesVars, other, concurrentVars, scopeVars>>

\* the effect of do_save on the state
ApplySave(r) ==
    /\ store' = r.store
    /\ nextId' = r.nextId
    /\ raw' = r.raw
    /\ qs_lookup' = r.qs_lookup
    /\ initial' = r.initial
    /\ errors' = r.errors
    /\ update_errors' = r.update_errors
    /\ raised' = r.raised
    /\ ops' = r.ops
    /\ staged' = r.staged
    /\ before' = [store |-> store, nextId |-> nextId, other |-> other]
    /\ pc' = IF r.raised # "none" THEN "crashed" ELSE "saved"
    /\ other' = other_after(other, r.ops, 1, nextId)

\* SilicaModelFormMixin.save: do_save of the array field, before the parent
\* form's own save looks at the form's errors
Save(dOk, cOk, uOk) ==
    /\ pc = "validated"
    /\ ApplySave(do_save(raw, store, nextId, qs_lookup, errors, update_errors, ctor,
                         dOk, cOk, uOk))
    /\ UNCHANGED <<ctor, required, posted, value, valid>>
    /\ UNCHANGED <<forms, instance_form, decoderVars, rulesVars, concurrentVars, scopeVars>>

Next ==
    \/ pc = "new" /\ \E data \in PostedData : ToPython(data)
    \/ Validate
    \/ pc = "validated" /\ \E dFail \in BOOLEAN, cFail \in BOOLEAN, uFail \in BOOLEAN :
                                Save(~dFail, ~cFail, ~uFail)

Spec == Init /\ [][Next]_vars

\* The pass as a function of its input: do_save on _raw as to_python line 352
\* assigns it (the posted list itself), for every posted list.
DoSaveOn(data, dOk, cOk, uOk) ==
    /\ pc = "new"
    /\ posted' = data
    /\ ApplySave(do_save(data, store, nextId, qs_lookup, errors, update_errors, ctor,
                         dOk, cOk, uOk))
    /\ UNCHANGED <<ctor, required, value, valid>>
    /\ UNCHANGED <<forms, instance_form, decoderVars, rulesVars, concurrentVars, scopeVars>>

NextEngine ==
    /\ pc = "new"
    /\ \E data \in PostedData, dFail \in BOOLEAN, cFail \in BOOLEAN, uFail \in BOOLEAN :
          DoSaveOn(data, ~dFail, ~cFail, ~uFail)

SpecEngine == Init /\ [][NextEngine]_vars

\* A later request of the same process.  The new form copies its fields, so
\* what the field object of the last request assigned itself (_raw,
\* _qs_lookup, initial) is gone; _errors and _update_errors are attributes of
\* the class that every pass appends to in place.
NewForm ==
    /\ \/ pc \in {"saved", "crashed"}
       \/ pc = "validated" /\ ~valid
    /\ forms < MaxForms
    /\ forms' = forms + 1
    /\ pc' = "new"
    /\ raw' = NoneData
    /\ posted' = NoneData
    /\ value' = NoValue
    /\ qs_lookup' = NoLookup
    /\ initial' = <<>>
    /\ raised' = "none"
    /\ ops' = <<>>
    /\ staged' = NoStaged
    /\ before' = [store |-> store, nextId |-> nextId, other |-> other]
    /\ valid' = FALSE
    /\ UNCHANGED <<store, nextId, ctor, required, errors, update_errors, instance_form,
                   decoderVars, rulesVars, other, concurrentVars, scopeVars>>

NextRequests ==
    \/ Next
    \/ NewForm

SpecRequests == Init /\ [][NextRequests]_vars

\* Construction of the field objects of a form class.
InitConstruct ==
    /\ Process
    /\ instance_form \in InstanceForms
    /\ pc = "unbuilt"

\* SilicaSubFormArrayField(queryset=...): the object then serves a request
ConstructArrayField(queryset_given) ==
    /\ pc = "unbuilt"
    /\ raised' = field_init(instance_form, queryset_given).raised
    /\ ops' = field_init(instance_form, queryset_given).log
    /\ pc' = IF field_init(instance_form, queryset_given).raised # "none" THEN "unusable"
             ELSE "new"
    /\ UNCHANGED <<store, nextId, ctor, required, raw, posted, value, qs_lookup, initial,
                   errors, update_errors, staged, before, valid, forms, instance_form,
                   decoderVars, rulesVars, other, concurrentVars, scopeVars>>

\* SilicaSubFormField(instance=...): no queryset argument
ConstructSubFormField ==
    /\ pc = "unbuilt"
    /\ raised' = field_init(instance_form, FALSE).raised
    /\ ops' = field_init(instance_form, FALSE).log
    /\ pc' = IF field_init(instance_form, FALSE).raised # "none" THEN "unusable" ELSE "single"
    /\ UNCHANGED <<store, nextId, ctor, required, raw, posted, value, qs_lookup, initial,
                   errors, update_errors, staged, before, valid, forms, instance_form,
                   decoderVars, rulesVars, other, concurrentVars, scopeVars>>

NextConstruct ==
    \/ pc = "unbuilt" /\ \E queryset_given \in BOOLEAN : ConstructArrayField(queryset_given)
    \/ ConstructSubFormField
    \/ Next

SpecConstruct == InitConstruct /\ [][NextConstruct]_vars

\* No array field takes part: the decoder and the rules read no field state.
NoField ==
    /\ store = [i \in Ids |-> Absent]
    /\ nextId = MaxInitial + 1
    /\ ctor = "fields"
    /\ required = FALSE
    /\ errors = <<>>
    /\ update_errors = [i \in Ids |-> 0]
    /\ forms = 1
    /\ instance_form = "ModelForm"
    /\ AtRest
    /\ queryset = NoQueryset
    /\ configured = NoQueryset
    /\ Fresh

\* A form is built on a posted flat mapping.
InitDecode ==
    /\ NoField
    /\ IdleRules
    /\ pc = "posted"
    /\ raw_data \in PostedMappings
    /\ array_keys = <<>>
    /\ array_info = <<>>
    /\ form_data = <<>>

\* SilicaFormMixin.__init__ with the mapping as `data`
Decode ==
    /\ pc = "posted"
    /\ array_keys' = _extract_array_info(raw_data).array_keys
    /\ array_info' = _extract_array_info(raw_data).array_info
    /\ form_data' = init_data(raw_data)
    /\ pc' = "decoded"
    /\ UNCHANGED <<fieldVars, raw_data, rulesVars, other, concurrentVars, scopeVars>>

NextDecode == Decode

SpecDecode == InitDecode /\ [][NextDecode]_vars

\* A condition or a rule is built and asked for its schema.
InitRules ==
    /\ NoField
    /\ IdleDecoder
    /\ schema = <<>>
    /\ \/ pc = "condition" /\ condition \in Conditions /\ rule = NoRule
       \/ pc = "rule" /\ rule \in Rules /\ condition = NoCondition

GetConditionSchema ==
    /\ pc = "condition"
    /\ schema' = get_condition_schema(condition)
    /\ pc' = "condition_schema"
    /\ UNCHANGED <<fieldVars, decoderVars, condition, rule, other, concurrentVars, scopeVars>>

GetRuleSchema ==
    /\ pc = "rule"
    /\ schema' = get_rule_schema(rule)
    /\ pc' = "rule_schema"
    /\ UNCHANGED <<fieldVars, decoderVars, condition, rule, other, concurrentVars, scopeVars>>

NextRules ==
    \/ GetConditionSchema
    \/ GetRuleSchema

SpecRules == InitRules /\ [][NextRules]_vars

\* The pass step by step, while another connection reads the table.  The
\* steps of do_save run inside `with transaction.atomic():`, so they work on
\* the transaction's view (txn); the table other connections read (store)
\* changes when the block is left normally.
passVars == <<ctor, required, value, valid, forms, instance_form, decoderVars, rulesVars,
              observed, scopeVars>>

\* do_save up to the atomic block: refresh_data, then the transaction opens
BeginPass(data) ==
    /\ pc = "new"
    /\ posted' = data
    /\ raw' = data
    /\ initial' = refresh_data(store)
    /\ before' = [store |-> store, nextId |-> nextId, other |-> other]
    /\ txn' = [open |-> TRUE, store |-> store, nextId |-> nextId]
    /\ ops' = <<Begin>>
    /\ pc' = "deleting"
    /\ UNCHANGED <<store, nextId, qs_lookup, errors, update_errors, raised, staged, other>>
    /\ UNCHANGED passVars

\* self.handle_delete(self._raw)
DeleteStep(ok) ==
    /\ pc = "deleting"
    /\ LET del == handle_delete(raw, txn.store, errors, ok)
       IN /\ txn' = [txn EXCEPT !.store = del.store]
          /\ errors' = del.errors
          /\ ops' = ops \o del.log
    /\ pc' = "preparing"
    /\ UNCHANGED <<store, nextId, raw, posted, qs_lookup, initial, update_errors, raised,
                   staged, before, other>>
    /\ UNCHANGED passVars

\* self.prepare_for_commit(self._raw); a KeyError leaves the atomic block,
\* which rolls the transaction back
PrepareStep ==
    /\ pc = "preparing"
    /\ LET pfc == prepare_for_commit(raw, qs_lookup, txn.store, errors, update_errors, ctor)
       IN /\ raw' = [isNone |-> raw.isNone, items |-> pfc.data]
          /\ qs_lookup' = pfc.lookup
          /\ errors' = pfc.errors
          /\ update_errors' = pfc.update_errors
          /\ staged' = [creates |-> pfc.creates, updates |-> pfc.updates, paths |-> pfc.paths]
          /\ raised' = pfc.raised
          /\ txn' = IF pfc.raised # "none" THEN NoTxn ELSE txn
          /\ ops' = IF pfc.raised # "none" THEN Append(ops, Rollback) ELSE ops
          /\ pc' = IF pfc.raised # "none" THEN "crashed" ELSE "creating"
    /\ UNCHANGED <<store, nextId, posted, initial, before, other>>
    /\ UNCHANGED passVars

\* if create: bulk_create under its try/except
CreateStep(ok) ==
    /\ pc = "creating"
    /\ LET cre == commit_creates(staged.creates, txn.store, txn.nextId, errors, ok)
       IN /\ txn' = [txn EXCEPT !.store = cre.store, !.nextId = cre.nextId]
          /\ errors' = cre.errors
          /\ ops' = ops \o cre.log
    /\ pc' = "updating"
    /\ UNCHANGED <<store, nextId, raw, posted, qs_lookup, initial, update_errors, raised,
                   staged, before, other>>
    /\ UNCHANGED passVars

\* if update: bulk_update under its try/except
UpdateStep(ok) ==
    /\ pc = "updating"
    /\ LET upd == commit_updates(staged.updates, txn.store, errors, ok)
       IN /\ txn' = [txn EXCEPT !.store = upd.store]
          /\ errors' = upd.errors
          /\ ops' = ops \o upd.log
    /\ pc' = "committing"
    /\ UNCHANGED <<store, nextId, raw, posted, qs_lookup, initial, update_errors, raised,
                   staged, before, other>>
    /\ UNCHANGED passVars

\* the atomic block is left without an exception: commit, then refresh_data
CommitStep ==
    /\ pc = "committing"
    /\ store' = txn.store
    /\ nextId' = txn.nextId
    /\ txn' = NoTxn
    /\ ops' = Append(ops, Commit)
    /\ initial' = refresh_data(txn.store)
    /\ other' = other_after(other, ops, 1, nextId)
    /\ pc' = "saved"
    /\ UNCHANGED <<raw, posted, qs_lookup, errors, update_errors, raised, staged, before>>
    /\ UNCHANGED passVars

\* another connection reads the table: it sees what has been committed
Read ==
    /\ observed' = [table |-> store, at |-> pc]
    /\ UNCHANGED <<fieldVars, pc, decoderVars, rulesVars, other, txn, scopeVars>>

NextConcurrent ==
    \/ pc = "new" /\ \E data \in PostedData : BeginPass(data)
    \/ pc = "deleting" /\ \E dFail \in BOOLEAN : DeleteStep(~dFail)
    \/ PrepareStep
    \/ pc = "creating" /\ \E cFail \in BOOLEAN : CreateStep(~cFail)
    \/ pc = "updating" /\ \E uFail \in BOOLEAN : UpdateStep(~uFail)
    \/ CommitStep
    \/ Read

SpecConcurrent == Init /\ [][NextConcurrent]_vars

\* A field constructed with a queryset: refresh_data, then handle_delete on
\* posted data.
Querysets ==
    {NoQueryset} \cup {[isNone |-> FALSE, scope |-> S] : S \in SUBSET (1..MaxInitial)}

InitScoped ==
    /\ store \in InitialStores
    /\ nextId = MaxInitial + 1
    /\ ctor = "fields"
    /\ required = FALSE
    /\ errors = <<>>
    /\ update_errors = [i \in Ids |-> 0]
    /\ forms = 1
    /\ instance_form = "ModelForm"
    /\ AtRest
    /\ configured \in Querysets
    /\ queryset = init_queryset(configured, store)
    /\ Fresh
    /\ IdleDecoder
    /\ IdleRules
    /\ pc = "constructed"

RefreshData ==
    /\ pc = "constructed"
    /\ queryset' = refresh_data_of(queryset, store).queryset
    /\ instantiated_forms' = refresh_data_of(queryset, store).instantiated_forms
    /\ initial' = refresh_data_of(queryset, store).initial
    /\ pc' = "refreshed"
    /\ UNCHANGED <<store, nextId, ctor, required, raw, posted, value, qs_lookup, errors,
                   update_errors, raised, ops, staged, before, valid, forms, instance_form,
                   decoderVars, rulesVars, other, concurrentVars, configured>>

\* handle_delete(data): self.queryset.exclude(...) is the delete set
HandleDelete(data, ok) ==
    /\ pc = "refreshed"
    /\ LET target == get_items_to_delete(data, Records(queryset, store))
           done == perform_delete(target, store, errors, ok)
       IN /\ store' = done.store
          /\ errors' = done.errors
          /\ ops' = <<Op("delete", target, <<>>, ok)>>
          /\ other' = other_after(other, <<Op("delete", target, <<>>, ok)>>, 1, nextId)
    /\ posted' = data
    /\ before' = [store |-> store, nextId |-> nextId, other |-> other]
    /\ pc' = "deleted"
    /\ UNCHANGED <<nextId, ctor, required, raw, value, qs_lookup, initial, update_errors,
                   raised, staged, valid, forms, instance_form, decoderVars, rulesVars,
                   concurrentVars, scopeVars>>

NextScoped ==
    \/ RefreshData
    \/ pc = "refreshed" /\ \E data \in PostedData, dFail \in BOOLEAN : HandleDelete(data, ~dFail)

SpecScoped == InitScoped /\ [][NextScoped]_vars

\* ------------------------------------------------------------------ claims
Count(seq, x) == Cardinality({k \in 1..Len(seq) : seq[k] = x})

\* posted items that carry a non-empty identifier, and their identifiers
WithId(data) == {k \in 1..Len(data.items) : PopValue(data.items[k]) # EmptyPk}
PostedIds(data) == {data.items[k].pk : k \in WithId(data)}

\* operations of the last pass, by name
OpsNamed(name) == {k \in 1..Len(ops) : ops[k].op = name}
Failed(name) == \E k \in OpsNamed(name) : ~ops[k].ok
Succeeded(name) == \E k \in OpsNamed(name) : ops[k].ok
DeleteTarget == UNION {ops[k].target : k \in OpsNamed("delete")}

\* C1: a posted list that went through to_python, passed validate and was then
\* committed by do_save is handled by the identifiers it was posted with: no
\* record whose identifier was posted is in the delete set, and every item
\* posted with a non-empty identifier takes the update path.
C1_PostedIdentifiersHonoured ==
    (pc = "saved" /\ valid) =>
        /\ DeleteTarget \cap PostedIds(posted) = {}
        /\ \A k \in WithId(posted) : staged.paths[k] = "update"

\* C2: the delete set handle_delete requests equals the current records minus
\* the records whose identifier appears, non-empty, in a posted item.
C2_DeleteSetIsDifference ==
    pc \in {"saved", "crashed"} =>
        /\ Cardinality(OpsNamed("delete")) = 1
        /\ DeleteTarget = Present(before.store) \ PostedIds(posted)

C2_Witness ==
    /\ pc = "saved"
    /\ Len(posted.items) = 2
    /\ \E k \in 1..2 : HasKey(posted.items[k]) /\ posted.items[k].pk = EmptyPk
    /\ PostedIds(posted) \cap Present(before.store) # {}
    /\ DeleteTarget # {}
    /\ Present(store) \cap DeleteTarget = {}

\* C3: prepare_for_commit sends an item to the create path when its identifier
\* is missing or empty and to the update path when it is non-empty, whether or
\* not the identifier is in the lookup table; without an exception every
\* posted item takes one of the two paths.
C3_PathByIdentifierOnly ==
    pc \in {"saved", "crashed"} =>
        /\ Len(staged.paths) <= Len(posted.items)
        /\ \A k \in 1..Len(staged.paths) :
              staged.paths[k] = IF k \in WithId(posted) THEN "update" ELSE "create"
        /\ raised = "none" => Len(staged.paths) = Len(posted.items)

C3_Witness ==
    /\ pc = "crashed"
    /\ Len(staged.paths) = 2
    /\ staged.paths[1] = "create"
    /\ staged.paths[2] = "update"
    /\ posted.items[2].pk \notin Present(before.store)

\* C4: the first posted item whose non-empty identifier is not in the lookup
\* table leaves an error under that identifier in the update-error map, and
\* neither an update nor a create is staged for it.
C4_UnknownIdentifierRecorded ==
    pc \in {"saved", "crashed"} =>
        \A k \in WithId(posted) :
            (/\ posted.items[k].pk \notin Present(before.store)
             /\ \A j \in 1..(k - 1) :
                   j \in WithId(posted) => posted.items[j].pk \in Present(before.store)) =>
                /\ update_errors[posted.items[k].pk] >= 1
                /\ \A u \in 1..Len(staged.updates) : staged.updates[u].pk # posted.items[k].pk
                /\ staged.paths[k] # "create"

\* C5: an empty posted list against current records requests the deletion of
\* every current record, stages and issues no create and no update, and leaves
\* no record once the delete succeeded.
C5_EmptyListDeletesAll ==
    (pc = "saved" /\ ~posted.isNone /\ posted.items = <<>>) =>
        /\ DeleteTarget = Present(before.store)
        /\ staged.creates = <<>> /\ staged.updates = <<>>
        /\ OpsNamed("bulk_create") = {} /\ OpsNamed("bulk_update") = {}
        /\ Succeeded("delete") => Present(store) = {}
        /\ Failed("delete") => store = before.store

C5_Witness ==
    /\ pc = "saved" /\ ~posted.isNone /\ posted.items = <<>>
    /\ Cardinality(Present(before.store)) = 2
    /\ Present(store) = {}

\* C6: a posted value of None makes the request cycle (to_python, validate,
\* then the parent form's save) a no-op on the store.
C6_NoneIsNoOp ==
    (pc = "saved" /\ valid /\ posted.isNone) =>
        /\ store = before.store
        /\ DeleteTarget = {}

\* a posted list that matches the records: one item per record, same
\* identifier, same field value
Matching(data, st) ==
    /\ ~data.isNone
    /\ Len(data.items) = Cardinality(Present(st))
    /\ \A i \in Present(st) :
          \E k \in 1..Len(data.items) : data.items[k] = [pk |-> i, name |-> st[i]]

\* C7: a request whose posted list matches the current records stages no
\* create, deletes nothing and leaves the persisted collection as it was.
C7_MatchingPostIsStable ==
    (pc = "saved" /\ valid /\ Matching(posted, before.store)) =>
        /\ staged.creates = <<>>
        /\ DeleteTarget = {}
        /\ store = before.store

\* the primary keys the last bulk_create assigned
CreatedIds == {i \in Ids : i >= before.nextId /\ i < nextId}

FirstUpdateOf(i) ==
    staged.updates[CHOOSE k \in 1..Len(staged.updates) :
                      /\ staged.updates[k].pk = i
                      /\ \A j \in 1..(k - 1) : staged.updates[j].pk # i]

\* C8: bulk_create is issued exactly when creates are staged and bulk_update
\* exactly when updates are staged, whatever the other one did; a failing
\* operation appends one error of its own and a succeeding one none; what a
\* succeeding operation wrote is in the store after the pass.
C8_CommitOpsIndependent ==
    pc = "saved" =>
        /\ Cardinality(OpsNamed("bulk_create")) = IF staged.creates # <<>> THEN 1 ELSE 0
        /\ Cardinality(OpsNamed("bulk_update")) = IF staged.updates # <<>> THEN 1 ELSE 0
        /\ Count(errors, "bulk_create") = IF Failed("bulk_create") THEN 1 ELSE 0
        /\ Count(errors, "bulk_update") = IF Failed("bulk_update") THEN 1 ELSE 0
        /\ Succeeded("bulk_create") =>
              /\ Cardinality(CreatedIds) = Len(staged.creates)
              /\ \A j \in 1..Len(staged.creates) :
                    store[before.nextId + j - 1] = staged.creates[j].name
        /\ Failed("bulk_create") => CreatedIds = {}
        /\ Succeeded("bulk_update") =>
              \A k \in 1..Len(staged.updates) :
                  store[staged.updates[k].pk] = FirstUpdateOf(staged.updates[k].pk).name

C8_Witness ==
    /\ pc = "saved"
    /\ Failed("bulk_create")
    /\ Succeeded("bulk_update")
    /\ store # before.store
    /\ errors = <<"bulk_create">>

\* C9: a failing delete appends one message and the pass goes on: every posted
\* item is partitioned, the staged creates and updates are issued and the
\* transaction commits.
C9_DeleteFailureIsSoft ==
    (pc \in {"saved", "crashed"} /\ Failed("delete")) =>
        /\ Count(errors, "delete") = 1
        /\ PostedIds(posted) \subseteq Present(before.store) =>
              /\ pc = "saved"
              /\ Len(staged.paths) = Len(posted.items)
              /\ staged.creates # <<>> => OpsNamed("bulk_create") # {}
              /\ staged.updates # <<>> => OpsNamed("bulk_update") # {}
              /\ ops[Len(ops)] = Commit

C9_Witness ==
    /\ pc = "saved"
    /\ Failed("delete")
    /\ DeleteTarget # {}
    /\ Succeeded("bulk_create")
    /\ Succeeded("bulk_update")
    /\ errors = <<"delete">>

Rank(name) ==
    CASE name = "begin" -> 0
      [] name = "delete" -> 1
      [] name = "bulk_create" -> 2
      [] name = "bulk_update" -> 3
      [] OTHER -> 4

\* C10: the store operations of a pass are issued between one begin and one
\* commit in the order delete, bulk_create, bulk_update; the delete set holds
\* only records that existed before the pass, so no record the pass created is
\* deleted by it.
C10_DeleteCreateUpdateOrder ==
    pc = "saved" =>
        /\ ops[1] = Begin
        /\ ops[Len(ops)] = Commit
        /\ ops[2].op = "delete"
        /\ \A j \in 1..Len(ops), k \in 1..Len(ops) :
              j < k => Rank(ops[j].op) < Rank(ops[k].op)
        /\ DeleteTarget \subseteq Present(before.store)
        /\ Succeeded("bulk_create") =>
              /\ CreatedIds \cap DeleteTarget = {}
              /\ CreatedIds \subseteq Present(store)

C10_Witness ==
    /\ pc = "saved"
    /\ Succeeded("delete") /\ DeleteTarget # {}
    /\ Succeeded("bulk_create") /\ CreatedIds # {}
    /\ Succeeded("bulk_update")
    /\ Len(ops) = 5

\* C11: a pass is all or nothing: when a phase of it recorded a store error,
\* here the delete of a non-empty delete set, none of the pass's creates and
\* updates stays, and the table after the pass is the table before it.
C11_PassIsAllOrNothing ==
    (pc \in {"saved", "crashed"} /\ Failed("delete") /\ DeleteTarget # {}) =>
        store = before.store

\* an entry in the non-field error list or in the update-error map
Collected == errors # <<>> \/ \E i \in Ids : update_errors[i] > 0

\* C12: validate, run after to_python, raises when the non-field error list or
\* the update-error map holds an entry.
C12_CollectedErrorsRaise ==
    (pc = "validated" /\ Collected) => ~valid

\* C13: after a pass the identifier-to-record lookup table the field reads
\* next holds exactly the records that are persisted.
C13_LookupIsCurrent ==
    pc = "saved" => Present(qs_lookup_get(qs_lookup, store).map) = Present(store)

\* positions of the posted keys by their number of segments
Segments == [k \in PostedKeys |-> split(k)]
ArrayIdx == {i \in 1..Len(raw_data) : Len(Segments[raw_data[i].key]) >= 3}
PlainIdx == {i \in 1..Len(raw_data) : Len(Segments[raw_data[i].key]) < 3}
Seg(i, n) == Segments[raw_data[i].key][n]

\* C14: a posted key of fewer than three segments is no array key, adds
\* nothing to any item, and is in the mapping handed to the form with the
\* value it was posted with.
C14_ShortKeysUntouched ==
    pc = "decoded" =>
        \A i \in PlainIdx :
            /\ \A k \in 1..Len(array_keys) : array_keys[k] # raw_data[i].key
            /\ _extract_array_info(DictDel(raw_data, raw_data[i].key)).array_info = array_info
            /\ \E j \in 1..Len(form_data) : form_data[j] = raw_data[i]

\* the index tokens posted for an array field, the first key of a token, the
\* token that was met k-th, and what was posted for a token
TokensOf(name) == {Seg(i, 2) : i \in {j \in ArrayIdx : Seg(j, 1) = name}}
KeysOf(name, tok) == {i \in ArrayIdx : Seg(i, 1) = name /\ Seg(i, 2) = tok}
FirstAt(name, tok) == CHOOSE i \in KeysOf(name, tok) : \A j \in KeysOf(name, tok) : i <= j
TokenAt(name, k) ==
    CHOOSE t \in TokensOf(name) :
        Cardinality({u \in TokensOf(name) : FirstAt(name, u) < FirstAt(name, t)}) = k - 1
LastValue(name, tok, f) ==
    LET at == {i \in KeysOf(name, tok) : Seg(i, 3) = f}
    IN raw_data[CHOOSE i \in at : \A j \in at : j <= i].value

\* C15: the decoder groups the array keys by field name and then by index
\* token: each posted name has one item list, the list has one item per
\* distinct token, in the order the tokens were first met, and an item maps
\* each sub-field posted for its token to the value posted for it.
C15_GroupedByNameThenToken ==
    pc = "decoded" =>
        /\ {array_info[g].name : g \in 1..Len(array_info)} = {Seg(i, 1) : i \in ArrayIdx}
        /\ \A g \in 1..Len(array_info), h \in 1..Len(array_info) :
              array_info[g].name = array_info[h].name => g = h
        /\ \A g \in 1..Len(array_info) :
              LET name == array_info[g].name
                  its == array_info[g].items
              IN /\ Len(its) = Cardinality(TokensOf(name))
                 /\ \A k \in 1..Len(its) :
                       /\ DOMAIN its[k] = {Seg(i, 3) : i \in KeysOf(name, TokenAt(name, k))}
                       /\ \A f \in DOMAIN its[k] :
                             its[k][f] = LastValue(name, TokenAt(name, k), f)

C15_Witness ==
    /\ pc = "decoded"
    /\ \E g \in 1..Len(array_info) :
          /\ Len(array_info[g].items) = 2
          /\ TokenAt(array_info[g].name, 1) = <<"1">>
          /\ TokenAt(array_info[g].name, 2) = <<"0">>

\* C16: a field class whose instance_form is not set fails to construct with
\* NotImplementedError, one whose instance_form is no ModelForm subclass with
\* TypeError; the store was not read and the object serves no request.
C16_ConstructorRejects ==
    (pc # "unbuilt" /\ instance_form # "ModelForm") =>
        /\ pc = "unusable"
        /\ raised = IF instance_form = "unset" THEN "NotImplementedError" ELSE "TypeError"
        /\ ops = <<>>

C16_Witness ==
    pc = "unusable" /\ instance_form = "Form" /\ raised = "TypeError"

\* {"enum": v} for a list, {"const": v} for everything else
Enc(v) == IF v.type = "list" THEN [enum |-> v] ELSE [const |-> v]
Given(kwargs) == DOMAIN kwargs # {}
Properties(kwargs) == [type |-> "object", properties |-> [k \in DOMAIN kwargs |-> Enc(kwargs[k])]]

C18_NotSchema ==
    (pc = "condition_schema" /\ condition.cls = "Not") =>
        /\ DOMAIN schema = {"not"}
        /\ (condition.args = <<>> /\ Given(condition.kwargs)) =>
              schema["not"] = Properties(condition.kwargs)
        /\ (Len(condition.args) = 1 /\ ~Given(condition.kwargs)) =>
              /\ DOMAIN schema["not"] = {schema_key(condition.args[1].cls)}
              /\ schema["not"] = get_condition_schema(condition.args[1])

C18_Witness ==
    /\ pc = "condition_schema"
    /\ condition.cls = "Not"
    /\ Len(condition.args) = 1
    /\ condition.args[1].cls = "Or"
    /\ Given(condition.args[1].kwargs)
    /\ ~Given(condition.kwargs)
    /\ DOMAIN schema["not"] = {"anyOf"}

\* C19: the schema of a rule is {effect, condition: {scope: '#', schema: S}}
\* where S has the one key anyOf, whose list holds the schema of each
\* positional condition, in order, and then, when keywords were given, one
\* allOf entry built from all the keywords.
C19_RuleSchema ==
    pc = "rule_schema" =>
        LET n == Len(rule.args)
        IN /\ DOMAIN schema = {"effect", "condition"}
           /\ schema.effect = rule.effect
           /\ DOMAIN schema.condition = {"scope", "schema"}
           /\ schema.condition.scope = "#"
           /\ DOMAIN schema.condition.schema = {"anyOf"}
           /\ Len(schema.condition.schema.anyOf) = n + (IF Given(rule.kwargs) THEN 1 ELSE 0)
           /\ \A k \in 1..n :
                 schema.condition.schema.anyOf[k] = get_condition_schema(rule.args[k])
           /\ Given(rule.kwargs) =>
                 schema.condition.schema.anyOf[n + 1] = [allOf |-> <<Properties(rule.kwargs)>>]

C19_Witness ==
    /\ pc = "rule_schema"
    /\ Len(rule.args) = 2
    /\ DOMAIN rule.kwargs = Keys
    /\ Len(schema.condition.schema.anyOf) = 3

\* C20: value_as_jsonschema gives {"enum": v} for a list and {"const": v} for
\* every other value, and the properties of a condition's keyword object hold
\* this encoding of each keyword value.
C20_ValueEncoding ==
    (pc = "condition_schema" /\ Given(condition.kwargs)) =>
        LET props == IF condition.cls = "Not" THEN schema["not"].properties
                     ELSE schema[schema_key(condition.cls)][Len(condition.args) + 1].properties
        IN \A k \in DOMAIN condition.kwargs :
              /\ condition.kwargs[k].type = "list" => props[k] = [enum |-> condition.kwargs[k]]
              /\ condition.kwargs[k].type # "list" => props[k] = [const |-> condition.kwargs[k]]

C20_Witness ==
    /\ pc = "condition_schema"
    /\ condition.cls = "Or"
    /\ DOMAIN condition.kwargs = Keys
    /\ condition.kwargs["key1"].type = "list"
    /\ condition.kwargs["key2"].type = "tuple"
    /\ schema["anyOf"][Len(condition.args) + 1].properties["key2"] =
           [const |-> condition.kwargs["key2"]]

\* the posted items prepare_for_commit went through without an exception, and
\* among them the ones of each path that the nested form accepts or rejects
Handled ==
    {k \in 1..Len(staged.paths) : raised = "none" \/ k < Len(staged.paths)}
Rejected(k) == posted.items[k].name = BadName
CreateItems == {k \in Handled : k \notin WithId(posted)}
UpdateItems == {k \in Handled : k \in WithId(posted)}

\* C21: an item the nested form rejects is staged neither for bulk_create nor
\* for bulk_update and reaches no store operation; a rejected update item adds
\* one entry under its own identifier to the update-error map, a rejected
\* create item adds one string to the non-field error list, and the items
\* after it are still processed: only an unknown identifier ends the loop.
C21_RejectedItemsAreRecorded ==
    pc \in {"saved", "crashed"} =>
        /\ \A i \in Ids :
              update_errors[i] =
                  Cardinality({k \in UpdateItems : Rejected(k) /\ posted.items[k].pk = i})
        /\ Count(errors, "create_item") = Cardinality({k \in CreateItems : Rejected(k)})
        /\ Len(staged.creates) = Cardinality({k \in CreateItems : ~Rejected(k)})
        /\ Len(staged.updates) = Cardinality({k \in UpdateItems : ~Rejected(k)})
        /\ \A o \in OpsNamed("bulk_create") : ops[o].objs = staged.creates
        /\ \A o \in OpsNamed("bulk_update") : ops[o].objs = staged.updates
        /\ raised = "none" => Len(staged.paths) = Len(posted.items)
        /\ raised # "none" =>
              /\ Len(staged.paths) \in WithId(posted)
              /\ posted.items[Len(staged.paths)].pk \notin Present(before.store)

C21_Witness ==
    /\ pc = "saved"
    /\ Len(posted.items) = 2
    /\ 1 \in WithId(posted) /\ Rejected(1)
    /\ update_errors[posted.items[1].pk] = 1
    /\ 2 \notin WithId(posted) /\ ~Rejected(2)
    /\ Len(staged.creates) = 1
    /\ Succeeded("bulk_create")

\* C22: the error state belongs to one field instance: the field of a form that
\* was just built holds no entry in its non-field error list and none in its
\* update-error map, whatever the fields of earlier forms recorded.
C22_ErrorStatePerInstance ==
    pc = "new" => ~Collected

\* what the table holds when every operation of the pass has been applied:
\* the delete set removed, the staged creates added, the staged updates written
AllApplied ==
    bulk_update(staged.updates,
                bulk_create(staged.creates,
                            [i \in Ids |-> IF i \in DeleteTarget THEN Absent
                                           ELSE before.store[i]],
                            before.nextId))

\* C23: the pass runs in one transaction, so another connection that reads the
\* table while the pass runs or after it sees either the table as it was
\* before the pass, or the table with all of the deletes, creates and updates
\* of the pass; stated here for a pass whose delete of a non-empty delete set
\* was refused.
C23_ReaderSeesAllOrNothing ==
    (observed.at # "new" /\ Failed("delete") /\ DeleteTarget # {}) =>
        \/ observed.table = before.store
        \/ observed.at = "saved" /\ observed.table = AllApplied

\* C24: the bulk_update of a pass writes the fields the item form declares and
\* nothing else: every record it updated is still in the table under the
\* identifier it had, and the attribute the form does not declare holds the
\* value it held before the pass.
C24_UpdateKeepsOtherAttributes ==
    (pc = "saved" /\ Succeeded("bulk_update")) =>
        \A k \in 1..Len(staged.updates) :
            LET i == staged.updates[k].pk
            IN /\ before.store[i] # Absent
               /\ store[i] # Absent
               /\ other[i] = before.other[i]

C24_Witness ==
    /\ pc = "saved"
    /\ Succeeded("bulk_update")
    /\ \E i \in Ids : /\ before.store[i] # Absent
                      /\ store[i] \notin {Absent, before.store[i]}
                      /\ other[i] = SetElsewhere

\* the records the field's queryset selects from the table
Selected == Present(Records(queryset, store))

\* C25: after refresh_data, initial holds exactly one entry per record of the
\* field's queryset, in queryset order, each entry carrying the record's
\* identifier, and one item form is instantiated per record.
C25_InitialListsTheQueryset ==
    pc = "refreshed" =>
        /\ Len(initial) = Cardinality(Selected)
        /\ {initial[k] : k \in 1..Len(initial)} = Selected
        /\ \A j, k \in 1..Len(initial) : j < k => initial[j] < initial[k]
        /\ Len(instantiated_forms) = Cardinality(Selected)
        /\ \A k \in 1..Len(initial) : instantiated_forms[k] = initial[k]

C25_Witness ==
    /\ pc = "refreshed"
    /\ Len(initial) = 1
    /\ Cardinality(Present(store)) = 2
    /\ configured = queryset

\* C26: errors do not carry over between passes: when every posted item of a
\* request validates, validate does not raise, whatever an earlier pass of the
\* process recorded.
C26_ErrorsDoNotCarryOver ==
    (/\ pc = "validated"
     /\ ~value.isNone
     /\ \A k \in 1..Len(value.forms) : ~value.forms[k]) => valid

\* C27: the records handle_delete goes for, right after refresh_data, are among
\* the records the configured queryset selects; a configured queryset that
\* selects no record leaves nothing to delete.
C27_DeletesWithinConfiguredQueryset ==
    (pc = "deleted" /\ ~configured.isNone) =>
        DeleteTarget \subseteq Present(Records(configured, before.store))

\* the posted items of one kind that validated, by position in the posted list
Accepted(kind) == SortedIds({k \in kind : ~Rejected(k)})
Cleaned(k) == validate_against_form(PopItem(posted.items[k]), PopValue(posted.items[k])).cleaned_data

\* the entries of the update-error map, over the keys 1..n
RECURSIVE UpdateErrorsUpTo(_)
UpdateErrorsUpTo(n) == IF n = 0 THEN 0 ELSE update_errors[n] + UpdateErrorsUpTo(n - 1)

\* C28: when every posted non-empty identifier is a key of the lookup table,
\* each posted item ends in exactly one place: the staged creates, the staged
\* updates or the per-item errors; and the staged creates and the staged
\* updates each keep the order their items were posted in.
C28_EveryItemAccountedFor ==
    (pc \in {"saved", "crashed"} /\ PostedIds(posted) \subseteq Present(before.store)) =>
        LET item_errors == Count(errors, "create_item") + UpdateErrorsUpTo(Cardinality(Ids))
        IN /\ raised = "none"
           /\ Len(staged.creates) + Len(staged.updates) + item_errors = Len(posted.items)
           /\ Len(staged.creates) = Len(Accepted(CreateItems))
           /\ \A j \in 1..Len(staged.creates) :
                  staged.creates[j] = prepare_create(Cleaned(Accepted(CreateItems)[j]), ctor)
           /\ Len(staged.updates) = Len(Accepted(UpdateItems))
           /\ \A j \in 1..Len(staged.updates) :
                  LET k == Accepted(UpdateItems)[j]
                  IN staged.updates[j] = prepare_update(posted.items[k].pk, Cleaned(k), ctor)

C28_Witness ==
    /\ pc = "saved"
    /\ Len(posted.items) = 2
    /\ WithId(posted) = {1, 2}
    /\ posted.items[1].pk > posted.items[2].pk
    /\ Len(staged.updates) = 2
    /\ staged.updates[1].pk = posted.items[1].pk

\* the array keys that agree with key i in their first three segments
SameEntry(i) ==
    {j \in ArrayIdx : Seg(j, 1) = Seg(i, 1) /\ Seg(j, 2) = Seg(i, 2) /\ Seg(j, 3) = Seg(i, 3)}

\* the item the decoder built for the array field and index token of key i
ItemOfKey(i) ==
    LET its == array_info[IndexOf(array_info, "name", Seg(i, 1))].items
    IN its[CHOOSE k \in 1..Len(its) : TokenAt(Seg(i, 1), k) = Seg(i, 2)]

\* C29: of a key with more than three segments only the first three are used:
\* its sub-field is its third segment.  Keys that agree in their first three
\* segments, like a.0.f and a.0.f.g, write one entry of one item, which holds
\* the value of the key iterated last; every such key is an array key and is
\* gone from the mapping handed to the form.
C29_LongKeysUseThreeSegments ==
    pc = "decoded" =>
        \A i \in ArrayIdx :
            LET last == CHOOSE j \in SameEntry(i) : \A h \in SameEntry(i) : h <= j
                item == ItemOfKey(i)
            IN /\ IndexOf(array_info, "name", Seg(i, 1)) # 0
               /\ Seg(i, 3) \in DOMAIN item
               /\ item[Seg(i, 3)] = raw_data[last].value
               /\ \A n \in 4..Len(Segments[raw_data[i].key]) :
                      Seg(i, n) \in DOMAIN item =>
                          \E j \in KeysOf(Seg(i, 1), Seg(i, 2)) : Seg(j, 3) = Seg(i, n)
               /\ \E k \in 1..Len(array_keys) : array_keys[k] = raw_data[i].key
               /\ IndexOf(form_data, "key", raw_data[i].key) = 0

C29_Witness ==
    /\ pc = "decoded"
    /\ \E i \in ArrayIdx, j \in ArrayIdx :
          /\ i < j
          /\ j \in SameEntry(i)
          /\ Len(Segments[raw_data[i].key]) > 3
          /\ raw_data[i].value # raw_data[j].value
          /\ ItemOfKey(i)[Seg(i, 3)] = raw_data[j].value
          /\ DOMAIN ItemOfKey(i) = {Seg(i, 3)}

====
